---- MODULE Spec2Model ----
(***************************************************************************)
(* Model of the quantized-interactions simulation substrate:               *)
(*   cell.rs   Cell (generation-indexed state map, neighbor set, their     *)
(*             RwLocks), Generation, Region/Space                          *)
(*   torus.rs  Torus::new (create_cells, the wiring passes, get_index,     *)
(*             next_co_ordinates), update_all, reduce                      *)
(*   conway.rs the Conway State rule                                       *)
(*   wave.rs   the Wave State rule and its f64 arithmetic                  *)
(*                                                                         *)
(* Co-ordinate vectors and dimension vectors are sequences (1-based) of    *)
(* 0-based co-ordinates; cells are named by their index in Torus.cells     *)
(* (0-based).  A state map is a function from the generations that have an *)
(* entry to the value stored there: the Conway value (alive) or a Wave.    *)
(***************************************************************************)
EXTENDS Integers, Sequences, FiniteSets, TLC

\* Bounds of the model.
MaxDim == 3
MaxExtent == 5
MaxCells == 36
MaxGen == 2
PoolMax == 2
NCallers == 2
MaxCalls == 4
MantissaBits == 3
WaveCells == 4
UsizeBits == 3
ErrCells == 3
JoinCells == 4
FailCalls == 2

VARIABLES
  tiling,        \* Torus.tiling: the Tiling passed to Torus::new
  dimensions,    \* Torus.dimensions: the dimension vector passed to Torus::new
  initializer,   \* the initial_state closure passed to Torus::new
  outcome,       \* "start" before Torus::new; then "Ok", "Err" or "Panic"
  cells,         \* Torus.cells.len(): cells are 0 .. cells-1
  neighbors,     \* InnerCell.neighbors of every cell
  state_map,     \* InnerCell.state_map of every cell
  reduced,       \* result of the last Space::reduce(0, +1), -1 before
  call,          \* the Cell::update call of every caller, and where it stands
  calls,         \* the number of join and update calls made by the callers
  replay,        \* InnerCell.state_map of every cell in a second run of the program
  poisoned,      \* the cells whose state_map lock, and whose neighbors lock, is poisoned
  last_result    \* what the last call of the driver returned

vars == <<tiling, dimensions, initializer, outcome, cells, neighbors, state_map,
          reduced, call, calls, replay, poisoned, last_result>>

----------------------------------------------------------------------------
(* cell.rs *)

\* usize: UsizeBits bits wide (64 in the program)
UsizeMax == 2 ^ UsizeBits - 1

\* impl Generation for usize: successor, self + 1.  At UsizeMax the addition
\* overflows: a build with overflow checks panics there, a build without them
\* wraps to 0 (successor is the value of the wrapping build).
successor_overflows(g) == g + 1 > UsizeMax
successor(g) == (g + 1) % (2 ^ UsizeBits)

\* RwLock: no lock is poisoned
NoPoison == [state_map |-> {}, neighbors |-> {}]
\* what a call returned: the call (op, cell, generation), Ok, Err or Panic, the
\* error of an Err or the message of a panic, and the value of a lookup
Result(op, c, generation, tag, error, value) ==
  [op |-> op, cell |-> c, generation |-> generation, tag |-> tag,
   error |-> error, value |-> value]
\* no call was made
NoError == [message |-> "", cell |-> -1]
NoResult == Result("none", 0, 0, "Ok", NoError, <<>>)

\* an insert that keeps the new entry only
insert_alone(map, k, v) == [x \in {k} |-> v]

\* HashMap::insert: the entry for k is set to v, replacing an older one.
insert(map, k, v) == [x \in (DOMAIN map) \cup {k} |-> IF x = k THEN v ELSE map[x]]

\* InnerCell::new: one state entry at `generation`
InnerCellNew(generation, s) == insert(<<>>, generation, s)

\* has_state that never finds an entry
has_state_never(sm, c, generation) == FALSE

\* Cell::has_state
has_state(sm, c, generation) == generation \in DOMAIN sm[c]

\* Option<S>: None is the empty sequence, Some(s) the sequence of s alone
None == <<>>
Some(s) == <<s>>

\* Cell::state: the stored value, or None
state(sm, c, generation) ==
  IF generation \in DOMAIN sm[c] THEN Some(sm[c][generation]) ELSE None

\* connect_cells: that is inserted into the neighbor set of this
connect_cells(nb, this, that) == [nb EXCEPT ![this] = @ \cup {that}]

\* Cell::join
join(nb, self, other) == connect_cells(connect_cells(nb, self, other), other, self)

----------------------------------------------------------------------------
(* conway.rs *)

\* the newest entry of a cell, whatever generation is asked
newest(sm, c) ==
  LET g == CHOOSE x \in DOMAIN sm[c] : \A y \in DOMAIN sm[c] : y <= x IN sm[c][g]

\* a read that takes the newest entry of the cell, whatever generation is asked
state_alive_newest(sm, c, generation) == newest(sm, c)

\* region.state(cell, generation) read as in Conway::update, lines 29-31 and
\* 36-37: alive in the entry at `generation`, false when there is no entry
state_alive(sm, c, generation) ==
  state(sm, c, generation) # None /\ state(sm, c, generation)[1]

\* Conway::update, line 42: the rule
next_state(this_state, count) == count = 3 \/ (this_state /\ count = 2)

\* Conway::update: the next value of cell c, from the entries at `generation`
ConwayUpdate(nb, sm, c, generation) ==
  next_state(state_alive(sm, c, generation),
             Cardinality({n \in nb[c] : state_alive(sm, n, generation)}))

----------------------------------------------------------------------------
(* wave.rs: f64 arithmetic.  A float is [m, e], the number m * 2^e, with   *)
(* m = 0 and e = 0, or 2^(MantissaBits-1) <= |m| < 2^MantissaBits: binary  *)
(* floating point of MantissaBits significant bits (f64 has 53), every     *)
(* operation rounded to nearest, ties to even, as IEEE 754 does.  The      *)
(* exponent is not bounded; NaN, infinities and -0.0 do not arise from the *)
(* amplitudes of the model.                                                *)

RECURSIVE Pow2(_)
Pow2(n) == IF n <= 0 THEN 1 ELSE 2 * Pow2(n - 1)

Abs(n) == IF n < 0 THEN -n ELSE n

RECURSIVE BitLen(_)
BitLen(n) == IF n = 0 THEN 0 ELSE 1 + BitLen(n \div 2)

Zero == [m |-> 0, e |-> 0]

\* the float nearest to n * 2^e (ties to even)
fl(n, e) ==
  IF n = 0 THEN Zero
  ELSE LET a == Abs(n)
           sign == IF n < 0 THEN -1 ELSE 1
           k == BitLen(a)
       IN  IF k <= MantissaBits
           THEN [m |-> n * Pow2(MantissaBits - k), e |-> e - (MantissaBits - k)]
           ELSE LET s == k - MantissaBits
                    q == a \div Pow2(s)
                    r == a % Pow2(s)
                    half == Pow2(s - 1)
                    q1 == IF r > half \/ (r = half /\ q % 2 = 1) THEN q + 1 ELSE q
                IN  IF q1 = Pow2(MantissaBits)
                    THEN [m |-> sign * Pow2(MantissaBits - 1), e |-> e + s + 1]
                    ELSE [m |-> sign * q1, e |-> e + s]

\* `k as f64`
from_int(k) == fl(k, 0)

\* the float nearest to num / den (den > 0): the quotient to MantissaBits + 2 bits
\* and a sticky bit for the remainder, then rounded
fl_ratio(num, den) ==
  IF num = 0 THEN Zero
  ELSE LET t == MantissaBits + 2 + BitLen(den)
           n == Abs(num) * Pow2(t)
           q == n \div den
           sticky == IF n % den # 0 /\ q % 2 = 0 THEN q + 1 ELSE q
       IN  fl((IF num < 0 THEN -1 ELSE 1) * sticky, -t)

\* f64 `+`
fl_add(x, y) ==
  IF x.m = 0 THEN y
  ELSE IF y.m = 0 THEN x
  ELSE LET hi == IF x.e >= y.e THEN x ELSE y
           lo == IF x.e >= y.e THEN y ELSE x
           d == hi.e - lo.e
       IN  IF d > MantissaBits + 2 THEN hi
           ELSE fl(hi.m * Pow2(d) + lo.m, lo.e)

\* f64 `-`
fl_sub(x, y) == fl_add(x, [m |-> -y.m, e |-> y.e])

\* f64 `*`
fl_mul(x, y) == fl(x.m * y.m, x.e + y.e)

\* f64 `/` (y is not zero)
fl_div(x, y) ==
  IF x.m = 0 THEN Zero
  ELSE LET q == fl_ratio(IF y.m < 0 THEN -x.m ELSE x.m, Abs(y.m))
       IN  [m |-> q.m, e |-> q.e + x.e - y.e]

\* the literal 0.005
FiveThousandths == fl_ratio(5, 1000)

\* (generation as f64 / 40.0).sin() * 30.0 and (generation as f64 / 40.0).cos(),
\* in thousandths, for the generations 0..3
SinTimes30 == <<0, 750, 1499, 2248>>
Cos == <<1000, 1000, 999, 997>>

----------------------------------------------------------------------------
(* wave.rs: the Wave State *)

\* Wave::new
WaveNew(amplitude, is_center) ==
  [amplitude |-> amplitude, velocity |-> Zero, is_center |-> is_center,
   neighbor_count |-> None]

\* #[derive(Default)] for Wave
WaveDefault == WaveNew(Zero, FALSE)

\* Wave::update, lines 58-71: the loop over the neighbors in the order the
\* HashSet hands them over; acc is [velocity, count]
RECURSIVE WaveNeighbors(_, _, _, _, _, _)
WaveNeighbors(order, sm, generation, this_state, this_c, acc) ==
  IF order = <<>> THEN acc
  ELSE LET other == state(sm, Head(order), generation)
           next ==
             IF other = None THEN acc
             ELSE IF other[1].neighbor_count = None
                  THEN [acc EXCEPT !.count = @ + 1]
             ELSE LET c == other[1].neighbor_count[1]
                      max_c == IF this_c >= c THEN this_c ELSE c
                      delta == fl_div(fl_mul(fl_sub(other[1].amplitude,
                                                    this_state.amplitude),
                                             FiveThousandths),
                                      from_int(max_c))
                  IN  [velocity |-> fl_add(acc.velocity, delta), count |-> acc.count + 1]
       IN  WaveNeighbors(Tail(order), sm, generation, this_state, this_c, next)

\* Wave::update for the cell c whose neighbors() iterates in `order`
WaveUpdate(order, sm, c, generation) ==
  LET this_state == IF state(sm, c, generation) = None THEN WaveDefault
                    ELSE state(sm, c, generation)[1]
      moved == fl_add(this_state.amplitude, this_state.velocity)
      result ==
        IF this_state.is_center
        THEN [amplitude |-> fl_ratio(SinTimes30[generation + 1], 1000),
              velocity |-> fl_ratio(Cos[generation + 1], 1000),
              count |-> Len(order)]
        ELSE IF this_state.neighbor_count # None
        THEN LET acc == WaveNeighbors(order, sm, generation, this_state,
                                      this_state.neighbor_count[1],
                                      [velocity |-> this_state.velocity, count |-> 0])
             IN  [amplitude |-> moved, velocity |-> acc.velocity, count |-> acc.count]
        ELSE [amplitude |-> moved, velocity |-> this_state.velocity,
              count |-> Len(order)]
  IN  [amplitude |-> result.amplitude, velocity |-> result.velocity,
       is_center |-> this_state.is_center,
       neighbor_count |-> IF result.count > 0 THEN Some(result.count) ELSE None]

----------------------------------------------------------------------------
(* torus.rs: index arithmetic *)

RECURSIVE get_index_loop(_, _, _, _)
get_index_loop(result, offset, co_ordinates, dims) ==
  IF offset > Len(dims) - 1 THEN result
  ELSE get_index_loop(result * dims[offset] + co_ordinates[offset + 1],
                      offset + 1, co_ordinates, dims)

\* get_index: Err on a length mismatch; co_ordinates[0] panics on an empty vector
get_index(co_ordinates, dims) ==
  IF Len(co_ordinates) # Len(dims) THEN [tag |-> "Err"]
  ELSE IF Len(co_ordinates) = 0 THEN [tag |-> "Panic"]
  ELSE [tag |-> "Ok", value |-> get_index_loop(co_ordinates[1], 1, co_ordinates, dims)]

\* get_index(..)? where the lengths agree and are not 0 (every call of the wiring passes)
index_of(co_ordinates, dims) == get_index(co_ordinates, dims).value

RECURSIVE next_co_ordinates_loop(_, _, _)
next_co_ordinates_loop(co_ordinates, dims, j) ==
  LET inc == [co_ordinates EXCEPT ![j] = @ + 1]
  IN  IF inc[j] < dims[j] THEN inc
      ELSE LET zero == [co_ordinates EXCEPT ![j] = 0]
           IN  IF j < 2 THEN zero ELSE next_co_ordinates_loop(zero, dims, j - 1)

\* next_co_ordinates: the odometer step, last axis fastest
next_co_ordinates(co_ordinates, dims) ==
  next_co_ordinates_loop(co_ordinates, dims, Len(dims))

\* create_cells: the co-ordinate vectors handed to initial_state, in creation order
RECURSIVE create_cells(_, _)
RECURSIVE create_cells_loop(_, _, _)
create_cells(co_ordinates, dims) ==
  IF Len(dims) = 0 THEN <<>>
  ELSE IF Len(dims) = 1 THEN [i \in 1..dims[1] |-> Append(co_ordinates, i - 1)]
  ELSE create_cells_loop(co_ordinates, dims, 0)
create_cells_loop(co_ordinates, dims, i) ==
  IF i >= dims[1] THEN <<>>
  ELSE create_cells(Append(co_ordinates, i), Tail(dims))
         \o create_cells_loop(co_ordinates, dims, i + 1)

----------------------------------------------------------------------------
(* torus.rs: the wiring passes.  A pass returns Ok with the neighbor sets  *)
(* it leaves, Err, or Panic (a failed assert!, an index out of range).     *)

Ok(nb) == [tag |-> "Ok", neighbors |-> nb]
Err == [tag |-> "Err"]
Panic == [tag |-> "Panic"]

\* center.join(&cells[index]) for every index of `others`, in order
RECURSIVE join_each(_, _, _, _)
join_each(nb, n, center, others) ==
  IF others = <<>> THEN Ok(nb)
  ELSE IF Head(others) >= n THEN Panic
  ELSE join_each(join(nb, center, Head(others)), n, center, Tail(others))

\* the indices joined to the cell at co_ordinates by connect_orthogonally:
\* for each axis k, the offsets dimensions[k] - 1 and 1
orthogonal_others(co_ordinates, dims) ==
  [j \in 1..(2 * Len(dims)) |->
     LET k == (j + 1) \div 2
         d == IF j % 2 = 1 THEN dims[k] - 1 ELSE 1
     IN  index_of([co_ordinates EXCEPT ![k] = (co_ordinates[k] + d) % dims[k]], dims)]

\* One iteration of `for i in 0..cells.len()` in a wiring pass: the assert!, the
\* joins of cell i with `others`, then next_co_ordinates.  The loop state is
\* [tag, neighbors, co_ordinates]; an iteration after an Err or a panic does nothing.
wiring_iteration(torus, loop, i, others) ==
  IF loop.tag # "Ok" THEN loop
  ELSE IF index_of(loop.co_ordinates, torus.dimensions) # i
       THEN [loop EXCEPT !.tag = "Panic"]
  ELSE LET joined == join_each(loop.neighbors, torus.cells, i, others)
       IN  IF joined.tag # "Ok" THEN [loop EXCEPT !.tag = joined.tag]
           ELSE [tag |-> "Ok", neighbors |-> joined.neighbors,
                 co_ordinates |-> next_co_ordinates(loop.co_ordinates, torus.dimensions)]

\* the state of a wiring loop before its first iteration
wiring_start(torus, nb) ==
  [tag |-> "Ok", neighbors |-> nb,
   co_ordinates |-> [k \in 1..Len(torus.dimensions) |-> 0]]

\* the Result<()> of a wiring pass whose loop ended in `loop`
wiring_result(loop) == IF loop.tag = "Ok" THEN Ok(loop.neighbors) ELSE [tag |-> loop.tag]

\* the iterations lo .. hi-1 of the loop of connect_orthogonally, in order
RECURSIVE connect_orthogonally_loop(_, _, _, _)
connect_orthogonally_loop(torus, loop, lo, hi) ==
  IF lo >= hi THEN loop
  ELSE IF hi - lo = 1
       THEN wiring_iteration(torus, loop, lo,
                             orthogonal_others(loop.co_ordinates, torus.dimensions))
  ELSE LET first == connect_orthogonally_loop(torus, loop, lo, (lo + hi) \div 2)
       IN  IF first.tag # "Ok" THEN first
           ELSE connect_orthogonally_loop(torus, first, (lo + hi) \div 2, hi)

connect_orthogonally(torus, nb) ==
  wiring_result(connect_orthogonally_loop(torus, wiring_start(torus, nb), 0, torus.cells))

\* the corners of connect_diagonally when `bits >>= 1` is left out: every axis
\* reads bit 0 of c
diagonal_corners_unshifted(co_ordinates, dims) ==
  [c \in 1..(2 ^ Len(dims)) |->
     index_of([k \in 1..Len(dims) |->
                 LET offset == IF (c - 1) % 2 = 1 THEN 1 ELSE dims[k] - 1
                 IN  (co_ordinates[k] + offset) % dims[k]], dims)]

\* the indices joined to the cell at co_ordinates by connect_diagonally:
\* corner c offsets axis k by 1 if bit k of c is set, by dimensions[k] - 1 if not
diagonal_corners(co_ordinates, dims) ==
  [c \in 1..(2 ^ Len(dims)) |->
     index_of([k \in 1..Len(dims) |->
                 LET offset == IF ((c - 1) \div (2 ^ (k - 1))) % 2 = 1
                               THEN 1 ELSE dims[k] - 1
                 IN  (co_ordinates[k] + offset) % dims[k]], dims)]

\* the iterations lo .. hi-1 of the loop of connect_diagonally, in order
RECURSIVE connect_diagonally_loop(_, _, _, _)
connect_diagonally_loop(torus, loop, lo, hi) ==
  IF lo >= hi THEN loop
  ELSE IF hi - lo = 1
       THEN wiring_iteration(torus, loop, lo,
                             diagonal_corners(loop.co_ordinates, torus.dimensions))
  ELSE LET first == connect_diagonally_loop(torus, loop, lo, (lo + hi) \div 2)
       IN  IF first.tag # "Ok" THEN first
           ELSE connect_diagonally_loop(torus, first, (lo + hi) \div 2, hi)

connect_diagonally(torus, nb) ==
  wiring_result(connect_diagonally_loop(torus, wiring_start(torus, nb), 0, torus.cells))

\* the OrthogonalAndDiagonal wiring without its second pass
connect_without_diagonals(torus, nb) == connect_orthogonally(torus, nb)

connect_orthogonally_and_diagonally(torus, nb) ==
  LET orthogonal == connect_orthogonally(torus, nb)
  IN  IF orthogonal.tag # "Ok" THEN orthogonal
      ELSE connect_diagonally(torus, orthogonal.neighbors)

\* the joins of connect_hexagons without the one to the next cell of the row
hexagon_others_no_next(co_ordinates, dims) ==
  LET height == dims[1]
      width == dims[2]
      y == (co_ordinates[1] + 1) % height
      offset == width - (co_ordinates[1] % 2)
      lx == (co_ordinates[2] + offset) % width
      rx == (co_ordinates[2] + offset + 1) % width
  IN  << index_of(<<y, lx>>, dims), index_of(<<y, rx>>, dims) >>

\* the indices joined to the cell at co_ordinates by connect_hexagons: left, right, next
hexagon_others(co_ordinates, dims) ==
  LET height == dims[1]
      width == dims[2]
      y == (co_ordinates[1] + 1) % height
      offset == width - (co_ordinates[1] % 2)
      lx == (co_ordinates[2] + offset) % width
      rx == (co_ordinates[2] + offset + 1) % width
      ax == (co_ordinates[2] + 1) % width
  IN  << index_of(<<y, lx>>, dims), index_of(<<y, rx>>, dims),
         index_of(<<co_ordinates[1], ax>>, dims) >>

\* the iterations lo .. hi-1 of the loop of connect_hexagons, in order
RECURSIVE connect_hexagons_loop(_, _, _, _)
connect_hexagons_loop(torus, loop, lo, hi) ==
  IF lo >= hi THEN loop
  ELSE IF hi - lo = 1
       THEN wiring_iteration(torus, loop, lo,
                             hexagon_others(loop.co_ordinates, torus.dimensions))
  ELSE LET first == connect_hexagons_loop(torus, loop, lo, (lo + hi) \div 2)
       IN  IF first.tag # "Ok" THEN first
           ELSE connect_hexagons_loop(torus, first, (lo + hi) \div 2, hi)

\* connect_hexagons that checks the number of dimensions but not their parity
connect_hexagons_any_extent(torus, nb) ==
  IF Len(torus.dimensions) # 2 THEN Err
  ELSE wiring_result(connect_hexagons_loop(torus, wiring_start(torus, nb), 0, torus.cells))

\* fn connect_hexagons: two dimensions, both even, then the wiring loop
connect_hexagons(torus, nb) ==
  IF Len(torus.dimensions) # 2 THEN Err
  ELSE IF torus.dimensions[1] % 2 = 1 \/ torus.dimensions[2] % 2 = 1 THEN Err
  ELSE wiring_result(connect_hexagons_loop(torus, wiring_start(torus, nb), 0, torus.cells))

----------------------------------------------------------------------------
(* torus.rs: Torus::new *)

\* enum Tiling
Tiling == {"Orthogonal", "OrthogonalAndDiagonal", "AdjacentTriangles",
           "TouchingTriangles", "Hexagons"}

\* The initial_state closures of the model: the one of conway.rs (a row of three
\* alive cells), and a family of striped patterns.
Initializers ==
  {[kind |-> "blinker", a |-> 0, b |-> 0, r |-> 0]} \cup
  {[kind |-> "stripes", a |-> a, b |-> b, r |-> r] : a \in 0..1, b \in 0..1, r \in 0..1}

\* The initial_state closures that make Wave cells: the one of wave.rs (all at
\* rest, the cells around the centre of a height a by width b torus driven), and
\* striped patterns of the amplitudes 0.0, 0.1 and 0.8 with no driven cell.
WaveAmplitudes == <<fl_ratio(0, 10), fl_ratio(1, 10), fl_ratio(8, 10)>>
WaveInitializers ==
  {[kind |-> "centre", a |-> a, b |-> b, r |-> 0] : a \in 0..MaxExtent, b \in 0..MaxExtent} \cup
  {[kind |-> "amplitudes", a |-> a, b |-> b, r |-> r] : a \in 0..1, b \in 0..1, r \in 0..2}

RECURSIVE sum_from(_, _)
sum_from(v, k) == IF k > Len(v) THEN 0 ELSE v[k] + sum_from(v, k + 1)

\* initial_state(co_ordinates): the Conway value (alive) of the cell created there.
\* The blinker closure reads v[0] and v[1]: it is handed to 2-D tori only.
initial_state(f, v) ==
  IF f.kind = "blinker" THEN v[2] = 2 /\ v[1] >= 1 /\ v[1] <= 3
  ELSE IF f.kind = "stripes" THEN (f.a * v[1] + f.b * sum_from(v, 2) + f.r) % 3 = 0
  ELSE IF f.kind = "centre"
       THEN WaveNew(Zero, (v[1] \div 2 = f.a \div 4) /\ (v[2] \div 2 = f.b \div 4))
  ELSE WaveNew(WaveAmplitudes[((f.a * v[1] + f.b * sum_from(v, 2) + f.r) % 3) + 1], FALSE)

\* Torus::new, lines 39-42: cardinality, the product of the dimensions
RECURSIVE cardinality_from(_, _)
cardinality_from(dims, i) ==
  IF i > Len(dims) THEN 1 ELSE dims[i] * cardinality_from(dims, i + 1)
cardinality(dims) == cardinality_from(dims, 1)

\* Torus::new: Ok with the torus (its cells, their neighbor sets and state maps),
\* Err, or Panic.  On Err and Panic no torus is returned.
NoTorus(tag) == [tag |-> tag, cells |-> 0, neighbors |-> <<>>, state_map |-> <<>>]
TorusNew(t, dims, initial_gen, f) ==
  LET co_ordinates == create_cells(<<>>, dims)
      n == Len(co_ordinates)
      torus == [tiling |-> t, dimensions |-> dims, cells |-> n]
      nb == [i \in 0..(n - 1) |-> {}]
      wired == CASE t = "Orthogonal" -> connect_orthogonally(torus, nb)
                 [] t = "OrthogonalAndDiagonal" -> connect_orthogonally_and_diagonally(torus, nb)
                 [] t = "Hexagons" -> connect_hexagons(torus, nb)
                 [] OTHER -> Panic
  IN  IF wired.tag # "Ok" THEN NoTorus(wired.tag)
      ELSE [tag |-> "Ok", cells |-> n, neighbors |-> wired.neighbors,
            state_map |-> [i \in 0..(n - 1) |->
                             InnerCellNew(initial_gen, initial_state(f, co_ordinates[i + 1]))]]

----------------------------------------------------------------------------
(* cell.rs: Cell::update; torus.rs: update_all, reduce *)

\* Cell::update, run to completion: nothing if the successor entry exists, else
\* the State update and the commit
update(nb, sm, c, generation) ==
  LET next_gen == successor(generation)
  IN  IF has_state(sm, c, next_gen) THEN sm
      ELSE [sm EXCEPT ![c] = insert(@, next_gen, ConwayUpdate(nb, sm, c, generation))]

\* Torus::update_all: cell.update(generation) for the cells lo .. hi-1, in index order
RECURSIVE update_all_loop(_, _, _, _, _)
update_all_loop(nb, sm, lo, hi, generation) ==
  IF lo >= hi THEN sm
  ELSE IF hi - lo = 1 THEN update(nb, sm, lo, generation)
  ELSE LET first == update_all_loop(nb, sm, lo, (lo + hi) \div 2, generation)
       IN  \* the cells lo .. mid-1 are done before cell mid starts
           IF DOMAIN first # DOMAIN sm THEN first
           ELSE update_all_loop(nb, first, (lo + hi) \div 2, hi, generation)

\* Torus::update_all: every cell in index order
update_all(nb, sm, n, generation) == update_all_loop(nb, sm, 0, n, generation)

\* Region::locations of the torus: cells.clone()
locations(n) == [i \in 1..n |-> i - 1]

\* the closure folded by the driver: |_region, _location, a| a + 1
count_one(location, accumulator) == accumulator + 1

\* Space::reduce over the one region of the torus, folding count_one over the
\* locations locs[lo] .. locs[hi-1], in order
RECURSIVE reduce_loop(_, _, _, _)
reduce_loop(locs, accumulator, lo, hi) ==
  IF lo >= hi THEN accumulator
  ELSE IF hi - lo = 1 THEN count_one(locs[lo], accumulator)
  ELSE LET first == reduce_loop(locs, accumulator, lo, (lo + hi) \div 2)
       IN  \* the locations lo .. mid-1 are folded before location mid is
           IF first # first THEN accumulator
           ELSE reduce_loop(locs, first, (lo + hi) \div 2, hi)
reduce(n, init) == reduce_loop(locations(n), init, 1, n + 1)

----------------------------------------------------------------------------
(* The torus life cycle: construction, then sweeps and folds by one driver. *)

\* the dimension vectors of the model: lattices of at most MaxCells cells
DimVectors ==
  {d \in UNION {[1..n -> 0..MaxExtent] : n \in 0..MaxDim} : cardinality(d) <= MaxCells}

\* the arguments of Torus::new; the blinker closure is handed to 2-D tori only
TorusInputs ==
  {x \in Tiling \X DimVectors \X Initializers : x[3].kind = "blinker" => Len(x[2]) = 2}

Init ==
  /\ \E x \in TorusInputs : tiling = x[1] /\ dimensions = x[2] /\ initializer = x[3]
  /\ outcome = "start"
  /\ cells = 0
  /\ neighbors = <<>>
  /\ state_map = <<>>
  /\ reduced = -1
  /\ call = <<>>
  /\ calls = 0
  /\ replay = <<>>
  /\ poisoned = NoPoison
  /\ last_result = NoResult

\* Torus::new(tiling, dimensions, 0, initializer)
New ==
  /\ outcome = "start"
  /\ LET torus == TorusNew(tiling, dimensions, 0, initializer)
     IN  /\ outcome' = torus.tag
         /\ cells' = torus.cells
         /\ neighbors' = torus.neighbors
         /\ state_map' = torus.state_map
  /\ UNCHANGED <<poisoned, last_result, replay, tiling, dimensions, initializer, reduced, call, calls>>

\* torus.update_all(generation)
UpdateAll(generation) ==
  /\ outcome = "Ok"
  /\ successor(generation) <= MaxGen
  /\ state_map' = update_all(neighbors, state_map, cells, generation)
  /\ UNCHANGED <<poisoned, last_result, replay, tiling, dimensions, initializer, outcome, cells, neighbors, reduced, call, calls>>

\* torus.reduce(0, |_, _, a| a + 1)
Reduce ==
  /\ outcome = "Ok"
  /\ reduced' = reduce(cells, 0)
  /\ UNCHANGED <<poisoned, last_result, replay, tiling, dimensions, initializer, outcome, cells, neighbors, state_map, call, calls>>

Next ==
  \/ New
  \/ \E generation \in 0..(MaxGen - 1) : UpdateAll(generation)
  \/ Reduce

Spec == Init /\ [][Next]_vars

----------------------------------------------------------------------------
(* The cell interface under overlapping calls (SpecCell).  The cells are    *)
(* those of a small torus, or cells made by Cell::new; callers join them    *)
(* and call Cell::update.  A Cell::update call takes a step for each lock   *)
(* it takes and releases, as in the code: the has_state check (read lock),  *)
(* in Conway::update the read of the cell's own state (read lock), the      *)
(* snapshot of its neighbor set (read lock) and the read of the state of    *)
(* each neighbor of the snapshot (read lock), the set iterated in any       *)
(* order, and the commit (write lock, HashMap::insert; the rule of line 42  *)
(* is applied to the locals on the way).  No lock is held between two of    *)
(* them (the trace! calls of conway.rs run there), so the steps of other    *)
(* calls come in between.                                                   *)

Callers == 1..NCallers

\* an activation of Cell::update: where it is, its arguments and the locals of
\* Conway::update (this_state, the neighbors still to visit, count)
Activation(pc, c, generation, this_state, todo, count, invoked) ==
  [pc |-> pc, cell |-> c, generation |-> generation, this_state |-> this_state,
   todo |-> todo, count |-> count, invoked |-> invoked]

Idle(c, generation) == Activation("idle", c, generation, FALSE, {}, 0, FALSE)
\* the call returned Ok(()); invoked: it ran the State update
Returned(c, generation, invoked) ==
  Activation("returned", c, generation, FALSE, {}, 0, invoked)
\* the call passed the has_state check
Entered(c, generation) == Activation("update", c, generation, FALSE, {}, 0, FALSE)

\* the tori of at most PoolMax cells
SmallTori ==
  {x \in {TorusNew(i[1], i[2], 0, i[3]) :
             i \in {y \in TorusInputs : cardinality(y[2]) <= PoolMax}} :
     x.tag = "Ok" /\ x.cells >= 1}

\* cells made by Cell::new(0, Conway::new(alive)), not joined
FreshCellsOf(alive) ==
  [tag |-> "Ok", cells |-> Cardinality(DOMAIN alive),
   neighbors |-> [i \in DOMAIN alive |-> {}],
   state_map |-> [i \in DOMAIN alive |-> InnerCellNew(0, alive[i])]]
FreshCells ==
  {FreshCellsOf(alive) : alive \in UNION {[0..(n - 1) -> BOOLEAN] : n \in 1..PoolMax}}

PoolInit(callers, pool) ==
  /\ tiling = "Orthogonal"
  /\ dimensions = <<>>
  /\ initializer = [kind |-> "stripes", a |-> 0, b |-> 0, r |-> 0]
  /\ outcome = "Ok"
  /\ reduced = -1
  /\ cells = pool.cells
  /\ neighbors = pool.neighbors
  /\ state_map = pool.state_map
  /\ call = [p \in callers |-> Idle(0, 0)]
  /\ calls = 0
  /\ replay = <<>>
  /\ poisoned = NoPoison
  /\ last_result = NoResult

InitCell ==
  \E pool \in SmallTori \cup FreshCells : PoolInit(Callers, pool)

\* a.join(&b)
Join(a, b) ==
  /\ calls < MaxCalls
  /\ calls' = calls + 1
  /\ neighbors' = join(neighbors, a, b)
  /\ UNCHANGED <<poisoned, last_result, replay, tiling, dimensions, initializer, outcome, cells, state_map, reduced, call>>

\* Cell::update, lines 138-141: the has_state check
UpdateBegin(p, c, generation) ==
  /\ call[p].pc \in {"idle", "returned"}
  /\ successor(generation) <= MaxGen
  /\ calls < MaxCalls
  /\ calls' = calls + 1
  /\ call' = [call EXCEPT ![p] =
                IF has_state(state_map, c, successor(generation))
                THEN Returned(c, generation, FALSE)
                ELSE Entered(c, generation)]
  /\ UNCHANGED <<poisoned, last_result, replay, tiling, dimensions, initializer, outcome, cells, neighbors, state_map, reduced>>

\* Conway::update, lines 28-32: the read of the cell's own state
UpdateThisState(p) ==
  /\ call[p].pc = "update"
  /\ call' = [call EXCEPT ![p] =
                Activation("neighbors", call[p].cell, call[p].generation,
                           state_alive(state_map, call[p].cell, call[p].generation),
                           {}, 0, TRUE)]
  /\ UNCHANGED <<poisoned, last_result, replay, tiling, dimensions, initializer, outcome, cells, neighbors, state_map,
                 reduced, calls>>

\* Conway::update, line 34: cell.neighbors(), the copy of the neighbor set
UpdateNeighbors(p) ==
  /\ call[p].pc = "neighbors"
  /\ call' = [call EXCEPT ![p] =
                Activation("count", call[p].cell, call[p].generation, call[p].this_state,
                           neighbors[call[p].cell], 0, TRUE)]
  /\ UNCHANGED <<poisoned, last_result, replay, tiling, dimensions, initializer, outcome, cells, neighbors, state_map,
                 reduced, calls>>

\* Conway::update, lines 35-40: the read of the state of the neighbor n, the
\* next one the copy of the set iterates to
UpdateNeighbor(p, n) ==
  /\ call[p].pc = "count"
  /\ n \in call[p].todo
  /\ call' = [call EXCEPT ![p] =
                Activation("count", call[p].cell, call[p].generation, call[p].this_state,
                           call[p].todo \ {n},
                           IF state_alive(state_map, n, call[p].generation)
                           THEN call[p].count + 1 ELSE call[p].count,
                           TRUE)]
  /\ UNCHANGED <<poisoned, last_result, replay, tiling, dimensions, initializer, outcome, cells, neighbors, state_map,
                 reduced, calls>>

\* Conway::update, lines 42-44, after the loop: the rule on what was read; then
\* Cell::update, lines 144-150: the commit
UpdateCommit(p) ==
  /\ call[p].pc = "count"
  /\ call[p].todo = {}
  /\ state_map' = [state_map EXCEPT ![call[p].cell] =
                     insert(@, successor(call[p].generation),
                            next_state(call[p].this_state, call[p].count))]
  /\ call' = [call EXCEPT ![p] = Returned(call[p].cell, call[p].generation, TRUE)]
  /\ UNCHANGED <<poisoned, last_result, replay, tiling, dimensions, initializer, outcome, cells, neighbors, reduced, calls>>

NextCell ==
  \/ \E a, b \in 0..(cells - 1) : Join(a, b)
  \/ \E p \in Callers, c \in 0..(cells - 1), generation \in 0..(MaxGen - 1) :
       UpdateBegin(p, c, generation)
  \/ \E p \in Callers : UpdateThisState(p)
  \/ \E p \in Callers : UpdateNeighbors(p)
  \/ \E p \in Callers, n \in 0..(cells - 1) : UpdateNeighbor(p, n)
  \/ \E p \in Callers : UpdateCommit(p)

SpecCell == InitCell /\ [][NextCell]_vars

\* One caller: every call returns before the next one is made.
InitSeq ==
  \E pool \in SmallTori \cup FreshCells : PoolInit({1}, pool)

NextSeq ==
  \/ \E a, b \in 0..(cells - 1) : Join(a, b)
  \/ \E c \in 0..(cells - 1), generation \in 0..(MaxGen - 1) : UpdateBegin(1, c, generation)
  \/ UpdateThisState(1)
  \/ UpdateNeighbors(1)
  \/ \E n \in 0..(cells - 1) : UpdateNeighbor(1, n)
  \/ UpdateCommit(1)

SpecSeq == InitSeq /\ [][NextSeq]_vars

----------------------------------------------------------------------------
(* A concurrent sweep (SpecSweep): one worker per cell runs that cell's      *)
(* update(generation), the workers interleaved step by step; when all have  *)
(* returned, the sweep of the next generation starts.                       *)

InitSweep ==
  \E pool \in SmallTori \cup FreshCells : PoolInit(0..(pool.cells - 1), pool)

\* the neighbor sets are populated before the first sweep, by joins of cells
\* that are not joined yet
SweepJoin(a, b) ==
  /\ \A c \in DOMAIN call : call[c] = Idle(0, 0)
  /\ join(neighbors, a, b) # neighbors
  /\ Join(a, b)

\* worker c calls cells[c].update(generation) for the generation of the sweep
SweepBegin(c) ==
  /\ call[c].pc = "idle"
  /\ successor(call[c].generation) <= MaxGen
  /\ call' = [call EXCEPT ![c] =
                IF has_state(state_map, c, successor(call[c].generation))
                THEN Returned(c, call[c].generation, FALSE)
                ELSE Entered(c, call[c].generation)]
  /\ UNCHANGED <<poisoned, last_result, replay, tiling, dimensions, initializer, outcome, cells, neighbors, state_map,
                 reduced, calls>>

\* all workers have returned: the sweep of the next generation
SweepNext ==
  /\ \A c \in DOMAIN call : call[c].pc = "returned"
  /\ call' = [c \in DOMAIN call |-> Idle(0, successor(call[c].generation))]
  /\ UNCHANGED <<poisoned, last_result, replay, tiling, dimensions, initializer, outcome, cells, neighbors, state_map,
                 reduced, calls>>

NextSweep ==
  \/ \E a, b \in 0..(cells - 1) : SweepJoin(a, b)
  \/ \E c \in 0..(cells - 1) : SweepBegin(c)
  \/ \E c \in 0..(cells - 1) : UpdateThisState(c)
  \/ \E c \in 0..(cells - 1) : UpdateNeighbors(c)
  \/ \E c, n \in 0..(cells - 1) : UpdateNeighbor(c, n)
  \/ \E c \in 0..(cells - 1) : UpdateCommit(c)
  \/ SweepNext

SpecSweep == InitSweep /\ [][NextSweep]_vars

----------------------------------------------------------------------------
(* Two runs of the same program on Wave cells: Torus::new with the same    *)
(* arguments, then update_all(0), update_all(1), ... in each run.  The     *)
(* cells of a run get fresh random ids (Uuid::new_v4), which the neighbor  *)
(* HashSets hash: the order in which a set iterates is any order.          *)

\* the sequences that list every element of the set S once
RECURSIVE Orders(_)
Orders(S) ==
  IF S = {} THEN {<<>>}
  ELSE UNION {{<<x>> \o o : o \in Orders(S \ {x})} : x \in S}

\* Torus::update_all on Wave cells: the loop over the cells from index i on, for
\* the state maps in `sms`; the result is every outcome of the loop, one for each
\* choice of the iteration orders of the neighbor sets
RECURSIVE wave_update_all_loop(_, _, _, _, _)
wave_update_all_loop(nb, sms, n, i, generation) ==
  IF i >= n THEN sms
  ELSE wave_update_all_loop(nb,
         UNION {IF has_state(sm, i, successor(generation)) THEN {sm}
                ELSE {[sm EXCEPT ![i] = insert(@, successor(generation),
                                               WaveUpdate(order, sm, i, generation))] :
                        order \in Orders(nb[i])} : sm \in sms},
         n, i + 1, generation)
wave_update_all(nb, sm, n, generation) ==
  wave_update_all_loop(nb, {sm}, n, 0, generation)

\* the arguments of Torus::new: tori of at most WaveCells cells
WaveInputs ==
  {x \in Tiling \X DimVectors \X WaveInitializers :
     /\ cardinality(x[2]) <= WaveCells
     /\ x[3].kind = "centre" => (Len(x[2]) = 2 /\ x[3].a = x[2][1] /\ x[3].b = x[2][2])}

InitRun ==
  /\ \E x \in WaveInputs : tiling = x[1] /\ dimensions = x[2] /\ initializer = x[3]
  /\ outcome = "start"
  /\ cells = 0
  /\ neighbors = <<>>
  /\ state_map = <<>>
  /\ reduced = -1
  /\ call = <<>>
  /\ calls = 0
  /\ replay = <<>>
  /\ poisoned = NoPoison
  /\ last_result = NoResult

\* Torus::new(tiling, dimensions, 0, initializer), in both runs
RunNew ==
  /\ outcome = "start"
  /\ LET torus == TorusNew(tiling, dimensions, 0, initializer)
     IN  /\ outcome' = torus.tag
         /\ cells' = torus.cells
         /\ neighbors' = torus.neighbors
         /\ state_map' = torus.state_map
         /\ replay' = torus.state_map
  /\ UNCHANGED <<poisoned, last_result, tiling, dimensions, initializer, reduced, call, calls>>

\* torus.update_all(generation) in the first run
RunUpdateAll(generation) ==
  /\ outcome = "Ok"
  /\ successor(generation) <= MaxGen
  /\ \A c \in 0..(cells - 1) : has_state(state_map, c, generation)
  /\ \E c \in 0..(cells - 1) : ~has_state(state_map, c, successor(generation))
  /\ state_map' \in wave_update_all(neighbors, state_map, cells, generation)
  /\ UNCHANGED <<poisoned, last_result, replay, tiling, dimensions, initializer, outcome, cells, neighbors,
                 reduced, call, calls>>

\* torus.update_all(generation) in the second run
ReplayUpdateAll(generation) ==
  /\ outcome = "Ok"
  /\ successor(generation) <= MaxGen
  /\ \A c \in 0..(cells - 1) : has_state(replay, c, generation)
  /\ \E c \in 0..(cells - 1) : ~has_state(replay, c, successor(generation))
  /\ replay' \in wave_update_all(neighbors, replay, cells, generation)
  /\ UNCHANGED <<poisoned, last_result, state_map, tiling, dimensions, initializer, outcome, cells, neighbors,
                 reduced, call, calls>>

NextRun ==
  \/ RunNew
  \/ \E generation \in 0..(MaxGen - 1) : RunUpdateAll(generation)
  \/ \E generation \in 0..(MaxGen - 1) : ReplayUpdateAll(generation)

SpecRun == InitRun /\ [][NextRun]_vars

----------------------------------------------------------------------------
(* Calls on a torus whose locks can fail (SpecFail).  RwLock::read and      *)
(* RwLock::write return Err once the lock is poisoned: a panic unwound      *)
(* while its write guard was held.  The code that runs under a write guard  *)
(* is HashMap::insert in Cell::update (line 149: the allocator, Hash and Eq *)
(* of the Generation type and Drop of the State type, which the implementor *)
(* supplies) and, in connect_cells, HashSet::insert (line 164) followed by  *)
(* trace! (line 165: the Log implementation the program installed).  Hash   *)
(* and Eq of Cell read its Uuid, so in connect_cells it is the trace! that  *)
(* can panic, after the insert.  The same two faults strike where no write  *)
(* guard is held, and then poison nothing: the Hash of the generation in    *)
(* the lookups of has_state and state (read guard), the Log implementation  *)
(* in the trace! of Cell::join, Conway::update and Torus::update_all.  The  *)
(* driver catches the panic and goes on using the torus.                    *)

\* anyhow!(..) of a lock failure on cell c; the message of a panic in a call on c
LockError(message, c) == [message |-> message, cell |-> c]
PanicMessage(message, c) == [message |-> message, cell |-> c]

\* what a read of the state maps finds: state_map.read().ok() is None for a
\* poisoned lock, and Cell::state and Cell::has_state go on as for a missing entry
visible(p, sm) == [c \in DOMAIN sm |-> IF c \in p.state_map THEN <<>> ELSE sm[c]]

\* Cell::has_state, lines 121-122
Cell_has_state(p, sm, c, generation) == has_state(visible(p, sm), c, generation)

\* Cell::state, lines 133-134
Cell_state(p, sm, c, generation) == state(visible(p, sm), c, generation)

\* Cell::neighbors: the neighbor set, or the error of the read lock
Cell_neighbors(p, nb, c) ==
  IF c \in p.neighbors
  THEN [tag |-> "Err", error |-> LockError("Could not get read lock for neighbors", c)]
  ELSE [tag |-> "Ok", value |-> nb[c]]

\* Conway::update: cell.neighbors()? fails on the lock error; the entries at
\* `generation` are read through Cell::state
Conway_update(p, nb, sm, c, generation) ==
  IF Cell_neighbors(p, nb, c).tag = "Err" THEN Cell_neighbors(p, nb, c)
  ELSE [tag |-> "Ok", value |-> ConwayUpdate(nb, visible(p, sm), c, generation)]

\* Cell::update: Ok or Err, and the state maps it leaves.  overflow_checks: the
\* build panics on the overflow of generation.successor().
Cell_update(overflow_checks, p, nb, sm, c, generation) ==
  IF overflow_checks /\ successor_overflows(generation)
  THEN [tag |-> "Panic", error |-> PanicMessage("attempt to add with overflow", c), cell |-> c,
        state_map |-> sm]
  ELSE IF Cell_has_state(p, sm, c, successor(generation))
  THEN [tag |-> "Ok", error |-> NoError, cell |-> c, state_map |-> sm]
  ELSE LET new_state == Conway_update(p, nb, sm, c, generation)
       IN  IF new_state.tag = "Err"
           THEN [tag |-> "Err", error |-> new_state.error, cell |-> c, state_map |-> sm]
           ELSE IF c \in p.state_map
           THEN [tag |-> "Err", error |-> LockError("Unable to obtain write lock for cell", c),
                 cell |-> c, state_map |-> sm]
           ELSE [tag |-> "Ok", error |-> NoError, cell |-> c,
                 state_map |-> [sm EXCEPT ![c] =
                                  insert(@, successor(generation), new_state.value)]]

\* update_all that does not look at what cell.update returns
RECURSIVE Torus_update_all_keeps_going(_, _, _, _, _, _, _)
Torus_update_all_keeps_going(overflow_checks, p, nb, sm, i, n, generation) ==
  IF i >= n THEN [tag |-> "Ok", error |-> NoError, cell |-> n, state_map |-> sm]
  ELSE Torus_update_all_keeps_going(overflow_checks, p, nb,
         Cell_update(overflow_checks, p, nb, sm, i, generation).state_map,
         i + 1, n, generation)

\* Torus::update_all from cell i on: cell.update(generation)? in index order
RECURSIVE Torus_update_all_loop(_, _, _, _, _, _, _)
Torus_update_all_loop(overflow_checks, p, nb, sm, i, n, generation) ==
  IF i >= n THEN [tag |-> "Ok", error |-> NoError, cell |-> n, state_map |-> sm]
  ELSE LET updated == Cell_update(overflow_checks, p, nb, sm, i, generation)
       IN  IF updated.tag # "Ok" THEN updated
           ELSE Torus_update_all_loop(overflow_checks, p, nb, updated.state_map,
                                      i + 1, n, generation)

\* Torus::update_all
Torus_update_all(overflow_checks, p, nb, sm, i, n, generation) ==
  Torus_update_all_loop(overflow_checks, p, nb, sm, i, n, generation)

\* the rings (1-D tori) of lo to hi cells, created at generation 0 or at
\* UsizeMax with every third cell alive
Rings(lo, hi) ==
  {x \in {TorusNew(i[1], i[2], g, i[3]) :
             i \in {y \in TorusInputs : /\ Len(y[2]) = 1
                                        /\ cardinality(y[2]) \in lo..hi
                                        /\ y[3] = [kind |-> "stripes", a |-> 1, b |-> 0, r |-> 0]},
             g \in {0, UsizeMax}} :
     x.tag = "Ok" /\ x.cells >= 1}

\* the rings of 1 to ErrCells cells
FailTori == Rings(1, ErrCells)

\* the rings of JoinCells cells: with 4 cells and more a ring has cells that
\* are not joined
JoinTori == Rings(JoinCells, JoinCells)

\* the generations the driver passes to its calls
GenInputs == {0, UsizeMax}

FailInit(tori) ==
  /\ \E torus \in tori :
       /\ cells = torus.cells
       /\ neighbors = torus.neighbors
       /\ state_map = torus.state_map
       /\ dimensions = <<torus.cells>>
  /\ tiling = "Orthogonal"
  /\ initializer = [kind |-> "stripes", a |-> 1, b |-> 0, r |-> 0]
  /\ outcome = "Ok"
  /\ reduced = -1
  /\ call = <<>>
  /\ calls = 0
  /\ replay = <<>>
  /\ poisoned = NoPoison
  /\ last_result = NoResult

InitFail == FailInit(FailTori)
InitJoin == FailInit(JoinTori)

\* cells[c].update(&generation)
DriverUpdate(c, generation, overflow_checks) ==
  /\ calls < FailCalls
  /\ calls' = calls + 1
  /\ LET updated == Cell_update(overflow_checks, poisoned, neighbors, state_map, c, generation)
     IN  /\ state_map' = updated.state_map
         /\ last_result' = Result("update", c, generation, updated.tag, updated.error, <<>>)
  /\ UNCHANGED <<poisoned, tiling, dimensions, initializer, outcome, cells, neighbors,
                 reduced, call, replay>>

\* torus.update_all(&generation); the cell of the result is the one that failed
DriverUpdateAll(generation, overflow_checks) ==
  /\ calls < FailCalls
  /\ calls' = calls + 1
  /\ LET updated == Torus_update_all(overflow_checks, poisoned, neighbors, state_map,
                                      0, cells, generation)
     IN  /\ state_map' = updated.state_map
         /\ last_result' = Result("update_all", updated.cell, generation, updated.tag,
                                  updated.error, <<>>)
  /\ UNCHANGED <<poisoned, tiling, dimensions, initializer, outcome, cells, neighbors,
                 reduced, call, replay>>

\* cells[c].state(&region, &generation)
DriverState(c, generation) ==
  /\ calls < FailCalls
  /\ calls' = calls + 1
  /\ last_result' = Result("state", c, generation, "Ok", NoError,
                           Cell_state(poisoned, state_map, c, generation))
  /\ UNCHANGED <<poisoned, tiling, dimensions, initializer, outcome, cells, neighbors,
                 state_map, reduced, call, replay>>

\* cells[c].has_state(&generation)
DriverHasState(c, generation) ==
  /\ calls < FailCalls
  /\ calls' = calls + 1
  /\ last_result' = Result("has_state", c, generation, "Ok", NoError,
                           Cell_has_state(poisoned, state_map, c, generation))
  /\ UNCHANGED <<poisoned, tiling, dimensions, initializer, outcome, cells, neighbors,
                 state_map, reduced, call, replay>>

\* cells[c].update(&generation) would reach HashMap::insert (line 149) on the
\* state maps sm: the successor entry is not visible, S::update returns Ok and
\* the write lock is taken
reaches_insert(p, sm, c, generation) ==
  /\ ~Cell_has_state(p, sm, c, successor(generation))
  /\ c \notin p.neighbors
  /\ c \notin p.state_map

\* cells[c].update(&generation) panics, which the driver catches.  poisons: in
\* HashMap::insert (line 149, the Hash of the generation), the write guard of
\* the state map held: nothing is inserted, the lock is poisoned.  Otherwise
\* before it, with no write guard held and nothing changed: in the Hash of the
\* generation under the read guard of has_state (line 122) or of Cell::state,
\* or in a trace! of Conway::update (conway.rs 28, 32, 35).  The message of the
\* result names the kind of section the panic unwound from.
UpdatePanics(c, generation, poisons) ==
  /\ calls < FailCalls
  /\ calls' = calls + 1
  /\ poisons => reaches_insert(poisoned, state_map, c, generation)
  /\ poisoned' = [poisoned EXCEPT !.state_map = @ \cup (IF poisons THEN {c} ELSE {})]
  /\ last_result' = Result("update", c, generation, "Panic",
                           PanicMessage(IF poisons THEN "insert" ELSE "read", c), <<>>)
  /\ UNCHANGED <<tiling, dimensions, initializer, outcome, cells, neighbors, state_map,
                 reduced, call, replay>>

\* torus.update_all(&generation) panics at cell k, which the driver catches: the
\* cells before k returned Ok and keep what they inserted; at cell k the trace!
\* of torus.rs 92 or cells[k].update(&generation) panics, as in UpdatePanics
UpdateAllPanics(generation, k, poisons) ==
  /\ calls < FailCalls
  /\ calls' = calls + 1
  /\ LET before == Torus_update_all(FALSE, poisoned, neighbors, state_map, 0, k, generation)
     IN  /\ before.tag = "Ok"
         /\ poisons => reaches_insert(poisoned, before.state_map, k, generation)
         /\ state_map' = before.state_map
  /\ poisoned' = [poisoned EXCEPT !.state_map = @ \cup (IF poisons THEN {k} ELSE {})]
  /\ last_result' = Result("update_all", k, generation, "Panic",
                           PanicMessage(IF poisons THEN "insert" ELSE "read", k), <<>>)
  /\ UNCHANGED <<tiling, dimensions, initializer, outcome, cells, neighbors,
                 reduced, call, replay>>

\* cells[c].state(&region, &generation) or cells[c].has_state(&generation)
\* panics in the Hash of the generation, under the read guard of the state map
\* (lines 122, 134); on a poisoned lock the map is not looked into
LookupPanics(op, c, generation) ==
  /\ calls < FailCalls
  /\ calls' = calls + 1
  /\ c \notin poisoned.state_map
  /\ last_result' = Result(op, c, generation, "Panic", PanicMessage("read", c), <<>>)
  /\ UNCHANGED <<poisoned, tiling, dimensions, initializer, outcome, cells, neighbors,
                 state_map, reduced, call, replay>>

\* connect_cells, lines 159-166: the error of the write lock, or the insert
try_connect_cells(p, nb, this, that) ==
  IF this \in p.neighbors
  THEN [tag |-> "Err", error |-> LockError("Could not get write lock", this), neighbors |-> nb]
  ELSE [tag |-> "Ok", error |-> NoError, neighbors |-> connect_cells(nb, this, that)]

\* Cell::join: connect_cells(self, other)?; connect_cells(other, self)?; the
\* insert of the first stays when the second returns its error
Cell_join(p, nb, self, other) ==
  LET first == try_connect_cells(p, nb, self, other)
  IN  IF first.tag = "Err" THEN first
      ELSE try_connect_cells(p, first.neighbors, other, self)

\* cells[a].join(&cells[b])
DriverJoin(a, b) ==
  /\ calls < FailCalls
  /\ calls' = calls + 1
  /\ LET joined == Cell_join(poisoned, neighbors, a, b)
     IN  /\ neighbors' = joined.neighbors
         /\ last_result' = Result("join", a, 0, joined.tag, joined.error, <<>>)
  /\ UNCHANGED <<poisoned, tiling, dimensions, initializer, outcome, cells, state_map,
                 reduced, call, replay>>

\* cells[a].join(&cells[b]) panics in a trace!, which the driver catches.  In
\* the trace! of the first connect_cells (line 165, nth = 1) its write guard is
\* held and its insert (line 164) is done: b is in the set of a, and the lock of
\* a is poisoned.  In that of the second connect_cells (nth = 2) both inserts are
\* done and the lock of b is poisoned.  In the trace! of Cell::join (line 128,
\* nth = 3) both inserts are done and no guard is held.  The message of the
\* result names the guarded section the panic unwound from.
JoinPanics(a, b, nth) ==
  /\ calls < FailCalls
  /\ calls' = calls + 1
  /\ a \notin poisoned.neighbors
  /\ nth >= 2 => b \notin poisoned.neighbors
  /\ neighbors' = IF nth = 1 THEN connect_cells(neighbors, a, b) ELSE join(neighbors, a, b)
  /\ poisoned' = [poisoned EXCEPT !.neighbors =
                    @ \cup (IF nth = 1 THEN {a} ELSE IF nth = 2 THEN {b} ELSE {})]
  /\ last_result' = Result("join", a, 0, "Panic",
                           PanicMessage(IF nth = 3 THEN "Joined" ELSE "insert", a), <<>>)
  /\ UNCHANGED <<tiling, dimensions, initializer, outcome, cells, state_map,
                 reduced, call, replay>>

\* the builds of the program: with and without overflow checks; they differ
\* where generation.successor() overflows
Builds(generation) == IF successor_overflows(generation) THEN BOOLEAN ELSE {FALSE}

NextFail ==
  \/ \E c \in 0..(cells - 1), generation \in GenInputs :
       \E overflow_checks \in Builds(generation) : DriverUpdate(c, generation, overflow_checks)
  \/ \E generation \in GenInputs :
       \E overflow_checks \in Builds(generation) : DriverUpdateAll(generation, overflow_checks)
  \/ \E c \in 0..(cells - 1), generation \in GenInputs : DriverState(c, generation)
  \/ \E c \in 0..(cells - 1), generation \in GenInputs : DriverHasState(c, generation)
  \/ \E c \in 0..(cells - 1), generation \in GenInputs, poisons \in BOOLEAN :
       UpdatePanics(c, generation, poisons)
  \/ \E generation \in GenInputs, k \in 0..(cells - 1), poisons \in BOOLEAN :
       UpdateAllPanics(generation, k, poisons)
  \/ \E op \in {"state", "has_state"}, c \in 0..(cells - 1), generation \in GenInputs :
       LookupPanics(op, c, generation)
  \/ \E a, b \in 0..(cells - 1) : DriverJoin(a, b)
  \/ \E a, b \in 0..(cells - 1), nth \in 1..3 : JoinPanics(a, b, nth)

SpecFail == InitFail /\ [][NextFail]_vars

\* the same calls on the rings of JoinCells cells
SpecJoin == InitJoin /\ [][NextFail]_vars

----------------------------------------------------------------------------
(* Properties of the torus life cycle (Spec) *)

Constructed == outcome # "start"
AllPositive(dims) == \A k \in 1..Len(dims) : dims[k] >= 1
HasZero(dims) == \E k \in 1..Len(dims) : dims[k] = 0
Implemented == {"Orthogonal", "OrthogonalAndDiagonal", "Hexagons"}

\* the co-ordinate vectors within the bounds of dims
InBounds(dims) ==
  {c \in [1..Len(dims) -> 0..MaxExtent] : \A k \in 1..Len(dims) : c[k] < dims[k]}

\* C3: for every dimension vector of positive extents, get_index on the in-bounds
\* co-ordinate vectors is a bijection onto 0 .. product - 1: every index is below
\* the product, distinct vectors have distinct indices, and the co-ordinates of the
\* cell at the index (the vector the cell was created with) are the vector itself.
C3_GetIndexBijection ==
  (Constructed /\ Len(dimensions) >= 1 /\ AllPositive(dimensions)) =>
    LET created == create_cells(<<>>, dimensions)
    IN  /\ \A c \in InBounds(dimensions) :
             /\ index_of(c, dimensions) < cardinality(dimensions)
             /\ created[index_of(c, dimensions) + 1] = c
        /\ \A c1, c2 \in InBounds(dimensions) :
             index_of(c1, dimensions) = index_of(c2, dimensions) => c1 = c2

\* the cell created at co-ordinate vector c
position(created, c) == (CHOOSE i \in 1..Len(created) : created[i] = c) - 1

\* the cells at +1 and -1 along each axis of the cell created at c, modulo the extent
VonNeumann(created, dims, c) ==
  UNION {{position(created, [c EXCEPT ![k] = (c[k] + d) % dims[k]]) :
             d \in {1, dims[k] - 1}} : k \in 1..Len(dims)}

\* C4: an Orthogonal torus of n dimensions with all extents >= 3 is constructed,
\* and the neighbor set of every cell is the cells at +1 and -1 along each axis
\* modulo the extent: 2n distinct neighbors.
C4_OrthogonalWiring ==
  (Constructed /\ tiling = "Orthogonal" /\ \A k \in 1..Len(dimensions) : dimensions[k] >= 3) =>
    /\ outcome = "Ok"
    /\ LET created == create_cells(<<>>, dimensions)
       IN  \A i \in 0..(cells - 1) :
             /\ neighbors[i] = VonNeumann(created, dimensions, created[i + 1])
             /\ Cardinality(neighbors[i]) = 2 * Len(dimensions)

\* C5: Torus::new with Hexagons returns an error whenever the dimension vector has
\* not exactly 2 entries or an extent is odd, and hands no torus and no cells over.
C5_HexagonsPrecondition ==
  (Constructed /\ tiling = "Hexagons"
     /\ (Len(dimensions) # 2 \/ \E k \in 1..Len(dimensions) : dimensions[k] % 2 = 1)) =>
    (outcome = "Err" /\ cells = 0 /\ DOMAIN neighbors = {} /\ DOMAIN state_map = {})

C5_Witness ==
  /\ outcome = "Err" /\ tiling = "Hexagons"
  /\ Len(dimensions) = 2 /\ dimensions[1] % 2 = 0 /\ dimensions[2] % 2 = 1
  /\ dimensions[1] > 0

\* C6: Torus::new fails with an error whenever an entry of the dimension vector
\* is zero (stated for the tilings that are implemented).
C6_ZeroDimensionFails ==
  (Constructed /\ tiling \in Implemented /\ HasZero(dimensions)) => outcome = "Err"

\* C7: a constructed torus has product(dimensions) cells, and the fold of the
\* constant 1 over all locations returns product(dimensions).
C7_CellsAndReduce ==
  (outcome = "Ok") =>
    /\ cells = cardinality(dimensions)
    /\ reduced # -1 => reduced = cardinality(dimensions)

\* c[k] + c[k+1]*dims[k] + c[k+2]*dims[k]*dims[k+1] + ... (1-based k)
RECURSIVE least_significant_first(_, _, _)
least_significant_first(c, dims, k) ==
  IF k > Len(c) THEN 0 ELSE c[k] + dims[k] * least_significant_first(c, dims, k + 1)

\* C12: for every dimension vector and every in-bounds co-ordinate vector c,
\* get_index(c, dims) is the least-significant-first mixed-radix encoding
\* c[0] + c[1]*dims[0] + c[2]*dims[0]*dims[1] + ...
C12_GetIndexLeastSignificantFirst ==
  (Constructed /\ Len(dimensions) >= 1) =>
    \A c \in InBounds(dimensions) :
      /\ get_index(c, dimensions).tag = "Ok"
      /\ index_of(c, dimensions) = least_significant_first(c, dimensions, 1)

\* the cells other than the one created at c whose co-ordinates each differ
\* from those of c by -1, 0 or +1 modulo the extent
Moore(created, dims, c) ==
  {position(created, w) :
     w \in {v \in InBounds(dims) :
              /\ v # c
              /\ \A k \in 1..Len(dims) :
                   v[k] \in {c[k], (c[k] + 1) % dims[k], (c[k] + dims[k] - 1) % dims[k]}}}

\* the cells whose co-ordinates all differ from those of c by +1 or -1 modulo the extent
Corners(created, dims, c) ==
  {position(created, w) :
     w \in {v \in InBounds(dims) :
              \A k \in 1..Len(dims) :
                v[k] \in {(c[k] + 1) % dims[k], (c[k] + dims[k] - 1) % dims[k]}}}

\* an OrthogonalAndDiagonal torus with all extents >= 3
IsMooreTorus ==
  /\ outcome = "Ok" /\ tiling = "OrthogonalAndDiagonal"
  /\ \A k \in 1..Len(dimensions) : dimensions[k] >= 3

\* C13 as claimed: on an OrthogonalAndDiagonal torus of n dimensions with all
\* extents >= 3 the neighbor set of every cell is its full Moore neighborhood,
\* 3^n - 1 cells.
C13_FullMoore ==
  IsMooreTorus =>
    LET created == create_cells(<<>>, dimensions)
    IN  \A i \in 0..(cells - 1) :
          /\ neighbors[i] = Moore(created, dimensions, created[i + 1])
          /\ Cardinality(neighbors[i]) = 3 ^ Len(dimensions) - 1

\* C13 as amended: on an OrthogonalAndDiagonal torus of n dimensions with all
\* extents >= 3 the neighbor set of every cell is the 2n cells at +1 and -1 along
\* one axis together with the 2^n cells at +1 or -1 along every axis; that is the
\* full Moore neighborhood for n <= 2, and 2n + 2^n cells for n >= 2.
C13_AxesAndCorners ==
  IsMooreTorus =>
    LET created == create_cells(<<>>, dimensions)
        n == Len(dimensions)
    IN  \A i \in 0..(cells - 1) :
          /\ neighbors[i] = VonNeumann(created, dimensions, created[i + 1])
                              \cup Corners(created, dimensions, created[i + 1])
          /\ Cardinality(neighbors[i]) = IF n = 1 THEN 2 ELSE 2 * n + 2 ^ n
          /\ n <= 2 => neighbors[i] = Moore(created, dimensions, created[i + 1])

\* a 3-D torus was wired: 6 + 8 neighbors, not 26
C13_Witness ==
  /\ IsMooreTorus /\ dimensions = <<3, 3, 3>> /\ cells = 27
  /\ Cardinality(neighbors[0]) = 14

\* the cells the cell created at v = (r, c) is to be joined to on a hexagonal
\* torus: (r, c+1), (r+1, c+offset) and (r+1, c+offset+1), offset = width - (r mod 2)
HexJoins(created, dims, v) ==
  LET height == dims[1]
      width == dims[2]
      offset == width - (v[1] % 2)
  IN  {position(created, <<v[1], (v[2] + 1) % width>>),
       position(created, <<(v[1] + 1) % height, (v[2] + offset) % width>>),
       position(created, <<(v[1] + 1) % height, (v[2] + offset + 1) % width>>)}

\* a Hexagons construction with two even, positive extents
IsHexInput ==
  /\ Constructed /\ tiling = "Hexagons" /\ Len(dimensions) = 2
  /\ \A k \in 1..2 : dimensions[k] >= 2 /\ dimensions[k] % 2 = 0

\* C14: Torus::new with Hexagons and even height and width, equal or not, returns
\* a torus whose neighbor relation is the symmetric closure of the joins of each
\* cell (r, c) with (r, c+1), (r+1, c+offset) and (r+1, c+offset+1), where
\* offset = width - (r mod 2), and nothing else.
C14_HexagonWiring ==
  IsHexInput =>
    /\ outcome = "Ok"
    /\ LET created == create_cells(<<>>, dimensions)
       IN  \A i \in 0..(cells - 1) :
             neighbors[i] = HexJoins(created, dimensions, created[i + 1])
                              \cup {j \in 0..(cells - 1) :
                                      i \in HexJoins(created, dimensions, created[j + 1])}

\* C18: for every dimension vector of positive extents, equal or not, and every
\* implemented tiling whose precondition holds, the assert of the wiring loops
\* holds at every iteration and no cell index is out of range: Torus::new does
\* not panic.
C18_WiringAssertHolds ==
  (/\ Constructed /\ tiling \in Implemented /\ AllPositive(dimensions)
   /\ Len(dimensions) >= 1)
    => outcome # "Panic"

\* a hexagonal torus with even height and width of at least 4
IsWideHexTorus ==
  /\ outcome = "Ok" /\ tiling = "Hexagons" /\ Len(dimensions) = 2
  /\ \A k \in 1..2 : dimensions[k] >= 4 /\ dimensions[k] % 2 = 0

\* C20: on a hexagonal torus with even height >= 4 and even width >= 4 every cell
\* has exactly 6 neighbors, none of them the cell itself: two in its own row, two
\* in the row above and two in the row below, with wraparound.
C20_SixNeighbors ==
  IsWideHexTorus =>
    LET created == create_cells(<<>>, dimensions)
        row(j) == created[j + 1][1]
    IN  \A i \in 0..(cells - 1) :
          /\ Cardinality(neighbors[i]) = 6
          /\ i \notin neighbors[i]
          /\ Cardinality({j \in neighbors[i] : row(j) = row(i)}) = 2
          /\ Cardinality({j \in neighbors[i] :
                            row(j) = (row(i) + 1) % dimensions[1]}) = 2
          /\ Cardinality({j \in neighbors[i] :
                            row(j) = (row(i) + dimensions[1] - 1) % dimensions[1]}) = 2

\* a 4 by 4 hexagonal torus was wired
C20_Witness ==
  /\ IsWideHexTorus /\ cells = 16
  /\ neighbors[5] = {4, 6, 0, 1, 8, 9}

\* the co-ordinate vectors of the cells that are alive at generation g
alive_at(g) ==
  LET created == create_cells(<<>>, dimensions)
  IN  {created[i + 1] : i \in {j \in 0..(cells - 1) : has_state(state_map, j, g) /\ state_map[j][g]}}

\* the torus of conway.rs: example()
IsConwayExample ==
  /\ tiling = "OrthogonalAndDiagonal" /\ dimensions = <<5, 5>>
  /\ initializer.kind = "blinker"

\* C11: the 5 by 5 OrthogonalAndDiagonal torus seeded by the closure of the
\* Conway example is constructed with exactly (1,2), (2,2), (3,2) alive at
\* generation 0, and update_all(0) leaves exactly (2,1), (2,2), (2,3) alive at
\* generation 1.
C11_ConwayBlinker ==
  (Constructed /\ IsConwayExample) =>
    /\ outcome = "Ok" /\ cells = 25
    /\ alive_at(0) = {<<1, 2>>, <<2, 2>>, <<3, 2>>}
    /\ (\A c \in 0..(cells - 1) : has_state(state_map, c, 1))
         => alive_at(1) = {<<2, 1>>, <<2, 2>>, <<2, 3>>}

\* update_all(0) ran on the torus of the example: the cell at (2,1) came alive
C11_Witness ==
  /\ outcome = "Ok" /\ IsConwayExample
  /\ \A c \in 0..(cells - 1) : has_state(state_map, c, 1)
  /\ <<2, 1>> \in alive_at(1) /\ <<1, 2>> \notin alive_at(1)

----------------------------------------------------------------------------
(* Properties of the cell interface (SpecSeq, SpecCell, SpecSweep) *)

\* C1: calling update(g) a second time right after update(g) has returned finds
\* the entry of successor(g) stored, returns Ok without running the State update
\* again, and leaves every stored value as it is.
C1_UpdateIdempotent ==
  [][(/\ call[1].pc = "returned"
      /\ call'[1] # call[1]
      /\ call'[1].cell = call[1].cell
      /\ call'[1].generation = call[1].generation)
     => (/\ has_state(state_map, call[1].cell, successor(call[1].generation))
         /\ call'[1] = Returned(call[1].cell, call[1].generation, FALSE)
         /\ state_map' = state_map)]_vars

\* two calls were made, update(g) twice on one cell: the first committed the
\* entry of successor(g), the second returned without the State update
C1_Witness ==
  /\ calls = 2
  /\ call[1].pc = "returned" /\ ~call[1].invoked
  /\ call[1].generation = 0
  /\ has_state(state_map, call[1].cell, 1)

\* C2: the neighbor relation is symmetric after any sequence of joins (the wiring
\* passes of Torus::new included); join(A, B) and join(B, A) leave the same
\* neighbor sets, and joining cells that are joined changes nothing.
C2_NeighborsSymmetric ==
  Constructed /\ outcome = "Ok" =>
    \A a, b \in 0..(cells - 1) :
      /\ (b \in neighbors[a]) <=> (a \in neighbors[b])
      /\ join(neighbors, a, b) = join(neighbors, b, a)
      /\ join(join(neighbors, a, b), a, b) = join(neighbors, a, b)
      /\ (b \in neighbors[a]) => join(neighbors, a, b) = neighbors

\* C8: write-once per key under any interleaving of update calls: an entry of a
\* state map is kept with its value by every step, and no call commits an entry
\* that is already there.
C8_WriteOnce ==
  [][/\ \A c \in 0..(cells - 1) : \A g \in DOMAIN state_map[c] :
          g \in DOMAIN state_map'[c] /\ state_map'[c][g] = state_map[c][g]
     /\ \A p \in DOMAIN call :
          (call[p].pc = "count" /\ call'[p].pc = "returned")
            => ~has_state(state_map, call[p].cell, successor(call[p].generation))]_vars

\* the state maps with the entries after generation g removed
BeforeSweep(sm, g) ==
  [c \in DOMAIN sm |-> [x \in {y \in DOMAIN sm[c] : y <= g} |-> sm[c][x]]]

\* C9: every cell has an entry at g when the sweep of g starts; whatever the
\* interleaving of the workers, the value a worker has committed for successor(g)
\* is the one the index-order sweep update_all(g) stores for its cell.
C9_SweepEqualsUpdateAll ==
  \A c \in DOMAIN call :
    (call[c].pc = "returned" /\ call[c].cell = c) =>
      LET g == call[c].generation
      IN  /\ \A d \in 0..(cells - 1) : has_state(state_map, d, g)
          /\ has_state(state_map, c, successor(g))
          /\ state_map[c][successor(g)] =
               update_all(neighbors, BeforeSweep(state_map, g), cells, g)[c][successor(g)]

\* the second sweep is done on two cells, and left a cell alive
C9_Witness ==
  /\ cells >= 2
  /\ \A c \in DOMAIN call : call[c] = Returned(c, 1, TRUE)
  /\ \E c \in 0..(cells - 1) : state_map[c][2]

\* C10: two runs of the same construction and the same update_all calls store
\* the same value for every cell at every generation, whatever order the
\* neighbor sets iterate in.
C10_RunsIdentical ==
  outcome = "Ok" =>
    \A c \in 0..(cells - 1) :
      \A g \in (DOMAIN state_map[c]) \cap (DOMAIN replay[c]) :
        state_map[c][g] = replay[c][g]

----------------------------------------------------------------------------
(* Properties of the calls on a torus whose locks can fail (SpecFail) *)

\* the step is a call of `op` that returned (Ok or Err)
Called(op) ==
  /\ calls' = calls + 1
  /\ last_result'.op = op
  /\ last_result'.tag # "Panic"

\* cells[c].update(generation) fails on the state maps sm: the write lock of its
\* state map is poisoned, or its neighbors lock is and the successor entry is missing
UpdateFails(sm, c, generation) ==
  \/ c \in poisoned.state_map
  \/ c \in poisoned.neighbors /\ successor(generation) \notin DOMAIN sm[c]

\* C15: update_all(g) returns Ok with an entry at successor(g) in every cell if
\* no cell fails; otherwise it returns the error of the first failing cell k, the
\* error update(g) of that cell returns; every cell before k has an entry at
\* successor(g), and the state maps of k and of the cells after k are untouched.
C15_UpdateAllStopsAtFirstFailure ==
  [][Called("update_all") =>
       LET g == last_result'.generation
           failing == {c \in 0..(cells - 1) : UpdateFails(state_map, c, g)}
       IN  IF failing = {}
           THEN /\ last_result'.tag = "Ok"
                /\ \A c \in 0..(cells - 1) : successor(g) \in DOMAIN state_map'[c]
           ELSE LET k == CHOOSE c \in failing : \A d \in failing : c <= d
                IN  /\ last_result'.tag = "Err"
                    /\ last_result'.cell = k
                    /\ last_result'.error.cell = k
                    /\ last_result'.error =
                         Cell_update(FALSE, poisoned, neighbors, state_map', k, g).error
                    /\ \A j \in 0..(k - 1) : successor(g) \in DOMAIN state_map'[j]
                    /\ \A j \in k..(cells - 1) : state_map'[j] = state_map[j]]_vars

\* update_all(0) failed at cell 1 of 3: cell 0 was updated, cell 2 was not
C15_Witness ==
  /\ cells = 3
  /\ last_result.op = "update_all" /\ last_result.tag = "Err"
  /\ last_result.cell = 1 /\ last_result.generation = 0
  /\ 1 \in DOMAIN state_map[0]
  /\ 1 \notin DOMAIN state_map[1] /\ 1 \notin DOMAIN state_map[2]

\* C16: state(g) returns None and has_state(g) returns false only for a cell
\* with no entry at g; when the lock of the state map cannot be taken, the call
\* fails instead.
C16_AbsentOnlyWhenNoEntry ==
  /\ (last_result.op = "state" /\ last_result.tag = "Ok" /\ last_result.value = None)
       => /\ last_result.generation \notin DOMAIN state_map[last_result.cell]
          /\ last_result.cell \notin poisoned.state_map
  /\ (last_result.op = "has_state" /\ last_result.tag = "Ok" /\ last_result.value = FALSE)
       => /\ last_result.generation \notin DOMAIN state_map[last_result.cell]
          /\ last_result.cell \notin poisoned.state_map

\* C17: successor on usize is injective over 0 .. UsizeMax, and every call of
\* update or update_all with generation g gets a successor(g) that is greater
\* than g, at UsizeMax too.
C17_SuccessorAdvances ==
  /\ \A g1, g2 \in 0..UsizeMax : successor(g1) = successor(g2) => g1 = g2
  /\ last_result.op \in {"update", "update_all"}
       => /\ last_result.error.message # "attempt to add with overflow"
          /\ successor(last_result.generation) > last_result.generation

\* C19: no call of update or update_all changes a neighbor set, and no call
\* removes or changes an entry of a state map; an update(g) of cell c that
\* returns Ok adds the entry at successor(g) to the state map of c if it was
\* missing, and nothing else.
C19_UpdateFrame ==
  [][/\ (calls' = calls + 1 /\ last_result'.op \in {"update", "update_all"})
          => neighbors' = neighbors
     /\ \A c \in 0..(cells - 1) : \A g \in DOMAIN state_map[c] :
          g \in DOMAIN state_map'[c] /\ state_map'[c][g] = state_map[c][g]
     /\ (Called("update") /\ last_result'.tag = "Ok") =>
          LET c == last_result'.cell
              g == last_result'.generation
          IN  /\ DOMAIN state_map'[c] = (DOMAIN state_map[c]) \cup {successor(g)}
              /\ \A d \in 0..(cells - 1) : d # c => state_map'[d] = state_map[d]]_vars

\* two updates returned Ok on a torus of 3 cells: cell 0 has the entries of
\* generation 0 and 1, cell 1 only the one of generation 0
C19_Witness ==
  /\ cells = 3 /\ calls = 2
  /\ last_result.op = "update" /\ last_result.tag = "Ok" /\ last_result.cell = 0
  /\ DOMAIN state_map[0] = {0, 1}
  /\ DOMAIN state_map[1] = {0}

====
